---- MODULE Spec2Model ----
(***************************************************************************)
(* Model of the backup / restore / scheduler code of src/backup_manager.py *)
(* (class BackupManager) together with the parts of its environment that   *)
(* the code acts on: the S3 buckets, the local backup and temp directories,*)
(* the zipfile archive format and the `schedule` job registry.             *)
(*                                                                         *)
(* Strings that the code transforms (object keys, archive entry names,     *)
(* staging file names) are sequences of one-character strings, so that     *)
(* replace('/', '_'), os.path.normpath and the zip extraction's            *)
(* sanitising are computed and not assumed.                                *)
(***************************************************************************)
EXTENDS Integers, Sequences, FiniteSets, TLC

(* ------------------------------ bounds --------------------------------- *)

\* The wall clock (one unit = one second of datetime.now()) stops here.
MaxClock == 1
\* create_backup calls made from the interactive (main) thread.
MaxManualRuns == 2
\* restore_backup calls.
MaxRestores == 2
\* Scheduler loop threads the process starts in its life.
MaxThreads == 2
\* Arrivals of a trigger time (02:00 of a day the job runs on).
MaxTriggers == 2
\* Paths in the list create_zip is given.
MaxFiles == 3

(* ------------------------- strings and paths --------------------------- *)

NoValue == "none"

\* ASCII code points of the characters used in keys (str comparison order).
Rank(c) ==
  CASE c = "." -> 46
    [] c = "/" -> 47
    [] c = "T" -> 84
    [] c = "X" -> 88
    [] c = "_" -> 95
    [] c = "a" -> 97
    [] c = "c" -> 99
    [] c = "d" -> 100
    [] c = "e" -> 101
    [] c = "h" -> 104
    [] c = "m" -> 109
    [] c = "n" -> 110
    [] c = "o" -> 111
    [] c = "r" -> 114
    [] c = "s" -> 115
    [] c = "t" -> 116
    [] c = "u" -> 117
    [] c = "x" -> 120

RECURSIVE LexLess(_, _)
\* s < t for Python / S3 (UTF-8 binary) string order.
LexLess(s, t) ==
  IF t = <<>> THEN FALSE
  ELSE IF s = <<>> THEN TRUE
  ELSE IF s[1] # t[1] THEN Rank(s[1]) < Rank(t[1])
  ELSE LexLess(Tail(s), Tail(t))

RECURSIVE SortKeys(_)
\* The keys of a set in ascending string order (list_objects_v2 order).
SortKeys(S) ==
  IF S = {} THEN <<>>
  ELSE LET m == CHOOSE x \in S : \A y \in S \ {x} : LexLess(x, y)
       IN  <<m>> \o SortKeys(S \ {m})

RECURSIVE Split(_)
\* str.split('/'): the components between the separators (empty ones kept).
Split(s) ==
  IF \A i \in 1..Len(s) : s[i] # "/" THEN <<s>>
  ELSE LET j == CHOOSE i \in 1..Len(s) :
                  s[i] = "/" /\ \A k \in 1..(i-1) : s[k] # "/"
       IN  <<SubSeq(s, 1, j-1)>> \o Split(SubSeq(s, j+1, Len(s)))

RECURSIVE Join(_)
\* '/'.join(components)
Join(cs) ==
  IF cs = <<>> THEN <<>>
  ELSE IF Len(cs) = 1 THEN cs[1]
  ELSE cs[1] \o <<"/">> \o Join(Tail(cs))

Dot == <<".">>
DotDot == <<".", ".">>

RECURSIVE NormComps(_, _, _)
\* The component loop of posixpath.normpath.
NormComps(cs, new, rooted) ==
  IF cs = <<>> THEN new
  ELSE LET c == cs[1] IN
       IF c = <<>> \/ c = Dot THEN NormComps(Tail(cs), new, rooted)
       ELSE IF c # DotDot \/ (~rooted /\ new = <<>>)
                \/ (new # <<>> /\ new[Len(new)] = DotDot)
            THEN NormComps(Tail(cs), Append(new, c), rooted)
       ELSE IF new # <<>>
            THEN NormComps(Tail(cs), SubSeq(new, 1, Len(new)-1), rooted)
       ELSE NormComps(Tail(cs), new, rooted)

\* file_key.replace('/', '_'): the name of the staging file of a key.
StagingName(key) ==
  [i \in 1..Len(key) |-> IF key[i] = "/" THEN "_" ELSE key[i]]

\* The entry name zipf.write(temp_file, file_key) stores for arcname
\* file_key: os.path.normpath, then leading separators stripped.  A relative
\* result of no components is "." ; a rooted one of no components strips to
\* the empty string, on which ZipInfo.from_file raises IndexError.
ArcName(key) ==
  LET rooted == key # <<>> /\ key[1] = "/"
      comps  == NormComps(Split(key), <<>>, rooted)
  IN  IF comps = <<>> THEN (IF rooted THEN <<>> ELSE Dot)
      ELSE Join(comps)

\* The path below the extraction directory that ZipFile.extractall gives an
\* entry: the components '', '.' and '..' are dropped.
ExtractName(name) ==
  LET cs == Split(name)
  IN  Join(SelectSeq(cs, LAMBDA c : c # <<>> /\ c # Dot /\ c # DotDot))

\* p names a directory on the way to q.
IsDirPrefix(p, q) ==
  /\ Len(q) > Len(p) + 1
  /\ SubSeq(q, 1, Len(p)) = p
  /\ q[Len(p) + 1] = "/"

(* -------------------------- functions as maps -------------------------- *)

Put(f, k, v) == [x \in (DOMAIN f) \cup {k} |-> IF x = k THEN v ELSE f[x]]
Remove(f, k) == [x \in (DOMAIN f) \ {k} |-> f[x]]
EmptyMap == [x \in {} |-> NoValue]

(* ------------------------------ universe ------------------------------- *)

BucketNames == {"b1", "b2"}
Contents == {"x", "y"}

\* Object keys the initial bucket may hold:  "a", "d/a" and "d/" (a folder
\* placeholder object).
KeyUniverse ==
  { <<"a">>, <<"d", "/", "a">>, <<"d", "/">> }

\* The interactive thread of the CLI; create_backup activations are named by
\* the thread that executes them.
Main == 0
Threads == 1..MaxThreads
Runners == {Main} \cup Threads

VARIABLES
  clock,        \* datetime.now(), in seconds
  bucket,       \* bucket name -> (key -> content): the remote store
  backup_dir,   \* archive file name -> file, DIRECTORIES['BACKUPS']
  temp,         \* staging file name -> content, DIRECTORIES['TEMP']
  run,          \* runner -> the activation of create_backup it executes
  manual_runs,  \* number of create_backup calls of the main thread so far
  restores,     \* number of restore_backup calls so far
  ret,          \* the last call the main thread completed, with its result
  scheduler_running,  \* self.scheduler_running
  jobs,         \* schedule.jobs, the job list of the default scheduler
  thread,       \* scheduler loop thread -> where it is in _run_scheduler
  arrivals,     \* number of trigger times that have arrived so far
  invocations   \* <<thread, arrival>>: a scheduled create_backup was started

schedVars == <<scheduler_running, jobs, thread, arrivals, invocations>>
vars == <<clock, bucket, backup_dir, temp, run, manual_runs, restores, ret,
          schedVars>>

NoPath == <<>>
NoRet ==
  [op |-> "none", ok |-> FALSE, path |-> NoPath, bucket_name |-> NoValue,
   interval |-> NoValue, info |-> <<>>, before |-> EmptyMap,
   raised |-> FALSE,      \* an exception left the call
   \* organize_bucket: the count returned, the keys organize_file was called
   \* with, the call that failed for each of them, and the count of the
   \* organize run just before this one when that run met no failure
   count |-> 0, attempted |-> <<>>, faults |-> EmptyMap,
   after_clean |-> FALSE, prev_count |-> 0,
   \* restore_backup: what the extraction directory held when the call
   \* began, the files it found there after extraction, those it uploaded
   stale |-> EmptyMap, tree |-> EmptyMap, uploaded |-> <<>>,
   rm_failed |-> FALSE,   \* shutil.rmtree raised
   started |-> FALSE,     \* extractall was called
   \* create_zip: the input paths and the entries of the archive
   files |-> <<>>, entries |-> <<>>]

\* An exception leaves the try block of a call whose result would be r.
Raise(r) == [r EXCEPT !.raised = TRUE, !.ok = FALSE]

\* The variant without a handler: the exception goes on to the caller.
ExceptNothing(r) == r

\* "except Exception as e:" followed by the return of the call's failure
\* value (False, None, [] or 0): the exception ends here.
ExceptException(r) == [r EXCEPT !.raised = FALSE]

(* --------------------------- create_backup ----------------------------- *)

IdleRun ==
  [pc |-> "idle", bucket_name |-> NoValue, path |-> NoPath,
   objects |-> <<>>, i |-> 0, entries |-> <<>>,
   result |-> "none",     \* "none" (not returned yet), "False" or "path"
   \* history of the activation, not program state
   fetched |-> 0, failed_fetch |-> 0, fault |-> FALSE, snapshot |-> EmptyMap,
   \* the activation of this runner before it returned False at line 32
   after_empty |-> FALSE]

\* f"{bucket_name}_{timestamp}.zip" under backup_dir
BackupPath(b, t) == <<b, t>>

\* Lines 22-24: the archive's name is fixed from the clock before anything
\* else happens.
StartBackup(r, b) ==
  /\ run[r].pc \in {"idle", "done"}
  /\ run' = [run EXCEPT ![r] =
       [IdleRun EXCEPT !.pc = "list", !.bucket_name = b,
                       !.path = BackupPath(b, clock),
                       !.after_empty = /\ run[r].result = "False"
                                       /\ run[r].objects = <<>>
                                       /\ ~run[r].fault]]
  /\ UNCHANGED <<clock, bucket, backup_dir, temp>>

\* "except Exception: return False" (lines 48-50).
Failed(a) == [a EXCEPT !.pc = "done", !.result = "False"]

\* A variant that creates the archive before it looks at the listing.
ListObjectsOpensFirst(r) ==
  /\ run[r].pc = "list"
  /\ LET b    == run[r].bucket_name
         objs == SortKeys(DOMAIN bucket[b])
     IN  /\ run' = [run EXCEPT ![r] =
                IF objs = <<>> THEN Failed(@)
                ELSE [@ EXCEPT !.pc = "open", !.objects = objs,
                               !.snapshot = bucket[b]]]
         /\ backup_dir' =
              IF objs = <<>>
              THEN Put(backup_dir, run[r].path,
                     [readable |-> TRUE, entries |-> <<>>, mtime |-> clock,
                      owner |-> r, origin |-> "failed", source |-> EmptyMap])
              ELSE backup_dir
  /\ UNCHANGED <<clock, bucket, temp, manual_runs, restores, ret, schedVars>>

\* Lines 27-32: list_objects_v2 answers; an empty bucket returns False.
ListObjects(r) ==
  /\ run[r].pc = "list"
  /\ LET b    == run[r].bucket_name
         objs == SortKeys(DOMAIN bucket[b])
     IN  run' = [run EXCEPT ![r] =
           IF objs = <<>> THEN Failed(@)
           ELSE [@ EXCEPT !.pc = "open", !.objects = objs,
                          !.snapshot = bucket[b]]]
  /\ UNCHANGED <<clock, bucket, backup_dir, temp, manual_runs, restores, ret, schedVars>>

\* Line 27 raises (the store cannot be reached, the bucket does not exist).
ListObjectsFails(r) ==
  /\ run[r].pc = "list"
  /\ run' = [run EXCEPT ![r] = Failed([@ EXCEPT !.fault = TRUE])]
  /\ UNCHANGED <<clock, bucket, backup_dir, temp, manual_runs, restores, ret, schedVars>>

\* The archive of runner r is written through two handles at once: another
\* runner holds the same path open, or has truncated it since r opened it.
OpenPcs == {"download", "zipwrite", "unlink", "close"}
Clobbered(r) ==
  \/ backup_dir[run[r].path].owner # r
  \/ \E q \in Runners \ {r} :
       run[q].pc \in OpenPcs /\ run[q].path = run[r].path

\* ZipFile.close(), also run by the with statement when an exception leaves
\* it: the central directory of the entries written so far is stored, which
\* makes the file a readable zip.  Two handles on one file leave either that
\* or an unreadable file.
CloseZip(r, complete) ==
  \E readable \in (IF Clobbered(r) THEN BOOLEAN ELSE {TRUE}) :
    backup_dir' = Put(backup_dir, run[r].path,
      [readable |-> readable,
       entries  |-> IF readable THEN run[r].entries ELSE <<>>,
       mtime    |-> clock,
       owner    |-> r,
       origin   |-> IF complete THEN "completed" ELSE "failed",
       source   |-> run[r].snapshot])

\* An exception inside the with block (lines 35-44): the archive is closed,
\* then the handler of line 48 returns False.
Abort(r, a) ==
  /\ CloseZip(r, FALSE)
  /\ run' = [run EXCEPT ![r] = Failed(a)]

\* Line 35: ZipFile(backup_path, 'w') creates or truncates the file.
OpenZip(r) ==
  /\ run[r].pc = "open"
  /\ backup_dir' = Put(backup_dir, run[r].path,
       [readable |-> FALSE, entries |-> <<>>, mtime |-> clock,
        owner |-> r, origin |-> "open", source |-> run[r].snapshot])
  /\ run' = [run EXCEPT ![r] = [@ EXCEPT !.pc = "download", !.i = 1]]
  /\ UNCHANGED <<clock, bucket, temp, manual_runs, restores, ret, schedVars>>

\* Line 35 raises (the backup directory cannot be written).
OpenZipFails(r) ==
  /\ run[r].pc = "open"
  /\ run' = [run EXCEPT ![r] = Failed([@ EXCEPT !.fault = TRUE])]
  /\ UNCHANGED <<clock, bucket, backup_dir, temp, manual_runs, restores, ret, schedVars>>

CurrentKey(r) == run[r].objects[run[r].i]

\* Line 42: download_file stores the object in the staging file.
Download(r) ==
  /\ run[r].pc = "download"
  /\ LET b == run[r].bucket_name
         k == CurrentKey(r)
     IN  /\ k \in DOMAIN bucket[b]
         /\ temp' = Put(temp, StagingName(k), bucket[b][k])
         /\ run' = [run EXCEPT ![r] =
               [@ EXCEPT !.pc = "zipwrite", !.fetched = run[r].i]]
  /\ UNCHANGED <<clock, bucket, backup_dir, manual_runs, restores, ret, schedVars>>

\* A best-effort variant: the failed object is skipped and the loop goes on.
DownloadFailsSkips(r) ==
  /\ run[r].pc = "download"
  /\ run' = [run EXCEPT ![r] =
       [@ EXCEPT !.pc = IF run[r].i < Len(run[r].objects)
                        THEN "download" ELSE "close",
                 !.i = @ + 1, !.fetched = run[r].i,
                 !.failed_fetch = run[r].i, !.fault = TRUE]]
  /\ UNCHANGED <<clock, bucket, backup_dir, temp, manual_runs, restores, ret,
                 schedVars>>

\* Line 42 raises: the fetch of object number i fails, nothing is staged.
DownloadFails(r) ==
  /\ run[r].pc = "download"
  /\ Abort(r, [run[r] EXCEPT !.fetched = run[r].i,
                             !.failed_fetch = run[r].i, !.fault = TRUE])
  /\ UNCHANGED <<clock, bucket, temp, manual_runs, restores, ret, schedVars>>

\* Line 43: the staging file is added under the key's entry name.  It raises
\* FileNotFoundError when the staging file is gone and IndexError when the
\* entry name is empty.
ZipWrite(r) ==
  /\ run[r].pc = "zipwrite"
  /\ LET k == CurrentKey(r)
         s == StagingName(k)
     IN  IF s \in DOMAIN temp /\ ArcName(k) # <<>>
         THEN /\ run' = [run EXCEPT ![r] =
                    [@ EXCEPT !.pc = "unlink",
                              !.entries = Append(@, <<ArcName(k), temp[s]>>)]]
              /\ UNCHANGED backup_dir
         ELSE Abort(r, run[r])
  /\ UNCHANGED <<clock, bucket, temp, manual_runs, restores, ret, schedVars>>

\* Line 43 raises for a local reason (the disk is full).
ZipWriteFails(r) ==
  /\ run[r].pc = "zipwrite"
  /\ Abort(r, [run[r] EXCEPT !.fault = TRUE])
  /\ UNCHANGED <<clock, bucket, temp, manual_runs, restores, ret, schedVars>>

\* Line 44: the staging file is removed (FileNotFoundError if it is gone),
\* and the loop of line 36 goes on to the next object.
Unlink(r) ==
  /\ run[r].pc = "unlink"
  /\ LET s == StagingName(CurrentKey(r))
     IN  IF s \in DOMAIN temp
         THEN /\ temp' = Remove(temp, s)
              /\ run' = [run EXCEPT ![r] =
                    [@ EXCEPT !.pc = IF run[r].i < Len(run[r].objects)
                                     THEN "download" ELSE "close",
                              !.i = @ + 1]]
              /\ UNCHANGED backup_dir
         ELSE /\ Abort(r, run[r])
              /\ UNCHANGED temp
  /\ UNCHANGED <<clock, bucket, manual_runs, restores, ret, schedVars>>

\* Lines 45-47: the with block ends, the archive is closed and its path is
\* returned.
CloseBackup(r) ==
  /\ run[r].pc = "close"
  /\ CloseZip(r, TRUE)
  /\ run' = [run EXCEPT ![r] =
       [@ EXCEPT !.pc = "done", !.result = "path"]]
  /\ UNCHANGED <<clock, bucket, temp, manual_runs, restores, ret, schedVars>>

\* One step of the create_backup activation of runner r.
BackupStep(r) ==
  \/ ListObjects(r)
  \/ OpenZip(r)
  \/ Download(r)
  \/ ZipWrite(r)
  \/ Unlink(r)
  \/ CloseBackup(r)

\* One step of the activation in which a store call or a local file
\* operation raises for a reason of its own.
BackupFault(r) ==
  \/ ListObjectsFails(r)
  \/ OpenZipFails(r)
  \/ DownloadFails(r)
  \/ ZipWriteFails(r)

\* The user chooses "Create manual backup" (src/main.py line 280).
ManualBackup(b) ==
  /\ manual_runs < MaxManualRuns
  /\ manual_runs' = manual_runs + 1
  /\ ret' = NoRet
  /\ UNCHANGED <<restores, schedVars>>
  /\ StartBackup(Main, b)

(* --------------------- the archives on disk, read ---------------------- *)

\* A variant that counts only the entries at the top level of the archive.
FileCountTopLevel(file) ==
  IF file.readable
  THEN Len(SelectSeq(file.entries, LAMBDA e : Len(Split(e[1])) = 1))
  ELSE 0

\* Lines 92-98: len(zipf.namelist()), or 0 when the file cannot be read as a
\* zip.
FileCount(file) == IF file.readable THEN Len(file.entries) ELSE 0

\* Lines 80-109.  None is <<>>, a descriptor d is <<d>>.  (The descriptor's
\* size in MB is left out: nothing reads it.)
get_backup_info(p) ==
  IF p \notin DOMAIN backup_dir THEN <<>>
  ELSE << [path       |-> p,
           file_count |-> FileCount(backup_dir[p]),
           created_at |-> backup_dir[p].mtime] >>

\* The variant without reverse=True.
BeforeAscending(a, b) == backup_dir[a].mtime < backup_dir[b].mtime

\* key=lambda x: x.stat().st_mtime, reverse=True: a goes before b.
Before(a, b) == backup_dir[a].mtime > backup_dir[b].mtime

RECURSIVE Insert(_, _)
\* x put behind every element that is not to come after it.
Insert(x, seq) ==
  IF seq = <<>> THEN <<x>>
  ELSE IF Before(x, seq[1]) THEN <<x>> \o seq
  ELSE <<seq[1]>> \o Insert(x, Tail(seq))

RECURSIVE Sorted(_)
\* sorted(backup_files, ...): stable, so equal keys keep the glob's order.
Sorted(seq) ==
  IF seq = <<>> THEN <<>>
  ELSE Insert(seq[Len(seq)], Sorted(SubSeq(seq, 1, Len(seq) - 1)))

\* Line 119: "if backup_info:" keeps every descriptor that is not None.
Kept(info) == info # <<>>

RECURSIVE Collect(_)
\* Lines 117-120: the loop that appends the descriptors.
Collect(seq) ==
  IF seq = <<>> THEN <<>>
  ELSE LET info == get_backup_info(seq[1])
       IN  (IF Kept(info) THEN info ELSE <<>>) \o Collect(Tail(seq))

\* Lines 111-125, for the order in which glob("*.zip") yields the files.
list_backups(globbed) == Collect(Sorted(globbed))

\* The sequences that hold every element of S once.
Perms(S) ==
  {f \in [1..Cardinality(S) -> S] : \A i, j \in DOMAIN f : i # j => f[i] # f[j]}

MainIdle == run[Main].pc \in {"idle", "done"}

\* The user asks for the summary of an archive (src/main.py line 283).
GetBackupInfo(p) ==
  /\ MainIdle
  /\ ret' = [NoRet EXCEPT !.op = "get_backup_info", !.path = p,
                          !.info = get_backup_info(p),
                          !.ok = get_backup_info(p) # <<>>]
  /\ UNCHANGED <<clock, bucket, backup_dir, temp, run, manual_runs, restores, schedVars>>

\* The user chooses "List existing backups" (src/main.py line 297).
ListBackups ==
  /\ MainIdle
  /\ \E globbed \in Perms(DOMAIN backup_dir) :
       ret' = [NoRet EXCEPT !.op = "list_backups", !.ok = TRUE,
                            !.info = list_backups(globbed)]
  /\ UNCHANGED <<clock, bucket, backup_dir, temp, run, manual_runs, restores, schedVars>>

\* backup_file.stat() raises (line 88): the handler of lines 107-109
\* returns None.
GetBackupInfoFails(p) ==
  /\ MainIdle
  /\ p \in DOMAIN backup_dir
  /\ ret' = ExceptException(Raise(
              [NoRet EXCEPT !.op = "get_backup_info", !.path = p]))
  /\ UNCHANGED <<clock, bucket, backup_dir, temp, run, manual_runs, restores, schedVars>>

\* The glob of line 115 or the stat of line 117 raises: the handler of
\* lines 123-125 returns [].
ListBackupsFails ==
  /\ MainIdle
  /\ ret' = ExceptException(Raise([NoRet EXCEPT !.op = "list_backups"]))
  /\ UNCHANGED <<clock, bucket, backup_dir, temp, run, manual_runs, restores, schedVars>>

(* --------------------------- restore_backup ---------------------------- *)

RECURSIVE ExtractAll(_, _)
\* Line 142, zipf.extractall(temp_extract_dir): the entries are written in
\* archive order below the extraction directory, a later file replacing an
\* earlier one of the same path.  It raises when an entry's path is the
\* directory itself, an existing directory, or lies below an existing file.
ExtractAll(entries, tree) ==
  IF entries = <<>> THEN [ok |-> TRUE, tree |-> tree]
  ELSE LET t == ExtractName(entries[1][1])
       IN  IF \/ t = <<>>
              \/ \E q \in DOMAIN tree : IsDirPrefix(t, q) \/ IsDirPrefix(q, t)
           THEN [ok |-> FALSE, tree |-> tree]
           ELSE ExtractAll(Tail(entries), Put(tree, t, entries[1][2]))

\* Line 149: str(relative_path).replace('\\', '/')
S3Key(rel) == [i \in 1..Len(rel) |-> IF rel[i] = "\\" THEN "/" ELSE rel[i]]

RECURSIVE Uploaded(_, _, _, _)
\* Lines 145-153: the first n files of the walk are uploaded.
Uploaded(objs, walk, n, tree) ==
  IF n = 0 THEN objs
  ELSE Put(Uploaded(objs, walk, n - 1, tree), S3Key(walk[n]), tree[walk[n]])

\* Path(DIRECTORIES['TEMP']) / 'restore_temp' (line 137), a name in the
\* temp directory like the staging files' names.
RestoreTemp == <<"r", "e", "s", "t", "o", "r", "e", "_", "t", "e", "m", "p">>

\* What the temp directory holds under a name that is a directory.
DirMark == "dir"

\* The files below the extraction directory, by their path relative to it.
ExtractDirTree ==
  LET inside == {n \in DOMAIN temp : IsDirPrefix(RestoreTemp, n)}
  IN  [rel \in {SubSeq(n, Len(RestoreTemp) + 2, Len(n)) : n \in inside}
         |-> temp[RestoreTemp \o <<"/">> \o rel]]

\* shutil.rmtree(temp_extract_dir) (lines 157 and 166): the temp directory
\* without the extraction directory.
RmTree ==
  [n \in {m \in DOMAIN temp : m # RestoreTemp /\ ~IsDirPrefix(RestoreTemp, m)}
     |-> temp[n]]

\* The temp directory with the extraction directory holding tree.
WithExtractDir(tree) ==
  [n \in (DOMAIN RmTree) \cup {RestoreTemp}
          \cup {RestoreTemp \o <<"/">> \o rel : rel \in DOMAIN tree}
     |-> IF n = RestoreTemp THEN DirMark
         ELSE IF n \in DOMAIN RmTree THEN temp[n]
         ELSE tree[SubSeq(n, Len(RestoreTemp) + 2, Len(n))]]

\* Lines 162-167: the directory is removed, unless rmtree itself raises.
AfterFailure(tree, rm_fails) ==
  IF rm_fails THEN WithExtractDir(tree) ELSE RmTree

\* Lines 127-171.  mkdir(exist_ok=True) of line 138 takes the extraction
\* directory as it finds it.  The walk is the order in which rglob('*')
\* yields the files the directory holds after the extraction; n of them are
\* uploaded before upload_file raises (all of them when it does not).
\* rm_fails: shutil.rmtree raises.
restore_backup(p, b) ==
  /\ MainIdle
  /\ restores < MaxRestores
  /\ restores' = restores + 1
  /\ LET done(ok) == [NoRet EXCEPT !.op = "restore_backup", !.path = p,
                                   !.bucket_name = b, !.ok = ok,
                                   !.before = bucket[b],
                                   !.stale = ExtractDirTree]
     IN  IF \/ p \notin DOMAIN backup_dir
            \/ ~backup_dir[p].readable
            \/ (RestoreTemp \in DOMAIN temp /\ temp[RestoreTemp] # DirMark)
         THEN /\ ret' = (IF p \notin DOMAIN backup_dir THEN done(FALSE)
                         ELSE ExceptException(Raise(done(FALSE))))
              /\ UNCHANGED <<bucket, temp>>
         ELSE LET x == ExtractAll(backup_dir[p].entries, ExtractDirTree)
              IN  \E rm_fails \in BOOLEAN :
                  IF ~x.ok
                  THEN /\ ret' = ExceptException(Raise(
                                  [done(FALSE) EXCEPT !.tree = x.tree,
                                                      !.started = TRUE,
                                                      !.rm_failed = rm_fails]))
                       /\ temp' = AfterFailure(x.tree, rm_fails)
                       /\ UNCHANGED bucket
                  ELSE \E walk \in Perms(DOMAIN x.tree) :
                       \E n \in 0..Len(walk) :
                         /\ bucket' = [bucket EXCEPT ![b] =
                                         Uploaded(@, walk, n, x.tree)]
                         /\ temp' = AfterFailure(x.tree, rm_fails)
                         /\ LET r == [done(TRUE)
                                        EXCEPT !.tree = x.tree,
                                               !.uploaded = SubSeq(walk, 1, n),
                                               !.started = TRUE,
                                               !.rm_failed = rm_fails]
                            IN  ret' = IF n = Len(walk) /\ ~rm_fails THEN r
                                       ELSE ExceptException(Raise(r))
  /\ UNCHANGED <<clock, backup_dir, run, manual_runs, schedVars>>

\* The user interrupts a restore during its uploads: KeyboardInterrupt is no
\* Exception, so the handlers of lines 162 and 169 do not run, and the
\* program goes on after it (src/main.py lines 385-387).
restore_interrupted(p, b) ==
  /\ MainIdle
  /\ restores < MaxRestores
  /\ restores' = restores + 1
  /\ p \in DOMAIN backup_dir
  /\ backup_dir[p].readable
  /\ ~(RestoreTemp \in DOMAIN temp /\ temp[RestoreTemp] # DirMark)
  /\ LET x == ExtractAll(backup_dir[p].entries, ExtractDirTree)
     IN  /\ x.ok
         /\ \E walk \in Perms(DOMAIN x.tree) :
            \E n \in 0..(Len(walk) - 1) :
              /\ bucket' = [bucket EXCEPT ![b] = Uploaded(@, walk, n, x.tree)]
              /\ temp' = WithExtractDir(x.tree)
              /\ ret' = [NoRet EXCEPT !.op = "interrupted"]
  /\ UNCHANGED <<clock, backup_dir, run, manual_runs, schedVars>>

(* ------------------------------ scheduler ------------------------------ *)

(* The `schedule` package keeps one job list for the process.  A job is    *)
(* its cadence, the bucket create_backup is called with, and whether its   *)
(* next_run has arrived: due is the number of the arrival, 0 before it.    *)
(* At most one job is ever in the list, because schedule_backup clears it  *)
(* before it adds one.                                                     *)
(* A loop thread that has picked a job keeps the job object: registered    *)
(* says that this object is still the one in the list.                     *)

Intervals == {"daily", "weekly", "monthly"}

\* A loop thread that does not exist yet.
NoThread == [pc |-> "unborn", bucket_name |-> NoValue, arrival |-> 0,
             registered |-> FALSE]

Alive(t) == thread[t].pc \notin {"unborn", "exited"}

\* schedule.clear(): the jobs leave the list; threads keep their objects.
Unregistered == [t \in Threads |-> [thread[t] EXCEPT !.registered = FALSE]]

\* Lines 52-72.  A new loop thread is started when the flag is not set.
schedule_backup(b, interval) ==
  /\ MainIdle
  /\ scheduler_running \/ \E t \in Threads : thread[t].pc = "unborn"
  /\ jobs' = IF interval \in {"daily", "weekly"}
             THEN << [interval |-> interval, bucket_name |-> b, due |-> 0] >>
             ELSE <<>>
  /\ scheduler_running' = TRUE
  /\ thread' =
       IF scheduler_running THEN Unregistered
       ELSE LET new == CHOOSE t \in Threads :
                         /\ thread[t].pc = "unborn"
                         /\ \A u \in Threads : thread[u].pc = "unborn" => t <= u
            IN  [Unregistered EXCEPT ![new].pc = "check"]
  /\ ret' = [NoRet EXCEPT !.op = "schedule_backup", !.ok = TRUE,
                          !.bucket_name = b, !.interval = interval]
  /\ UNCHANGED <<clock, bucket, backup_dir, temp, run, manual_runs, restores,
                 arrivals, invocations>>

\* scheduler_thread.start() raises (line 66, no thread can be started): the
\* job is registered and the flag set, and the handler of lines 70-72
\* returns False.
ScheduleBackupFails(b, interval) ==
  /\ MainIdle
  /\ ~scheduler_running
  /\ jobs' = IF interval \in {"daily", "weekly"}
             THEN << [interval |-> interval, bucket_name |-> b, due |-> 0] >>
             ELSE <<>>
  /\ scheduler_running' = TRUE
  /\ thread' = Unregistered
  /\ ret' = ExceptException(Raise(
              [NoRet EXCEPT !.op = "schedule_backup", !.bucket_name = b,
                            !.interval = interval]))
  /\ UNCHANGED <<clock, bucket, backup_dir, temp, run, manual_runs, restores,
                 arrivals, invocations>>

\* Lines 173-182.
stop_scheduler ==
  /\ MainIdle
  /\ scheduler_running' = FALSE
  /\ jobs' = <<>>
  /\ thread' = Unregistered
  /\ ret' = [NoRet EXCEPT !.op = "stop_scheduler", !.ok = TRUE]
  /\ UNCHANGED <<clock, bucket, backup_dir, temp, run, manual_runs, restores,
                 arrivals, invocations>>

\* The wall clock reaches the next_run of the registered job.
TriggerTime ==
  /\ jobs # <<>>
  /\ jobs[1].due = 0
  /\ arrivals < MaxTriggers
  /\ arrivals' = arrivals + 1
  /\ jobs' = [jobs EXCEPT ![1].due = arrivals + 1]
  /\ UNCHANGED <<clock, bucket, backup_dir, temp, run, manual_runs, restores,
                 ret, scheduler_running, thread, invocations>>

\* The variant "while True": the flag is not looked at.
LoopCheckForever(t) ==
  /\ thread[t].pc \in {"check", "sleep"}
  /\ thread' = [thread EXCEPT ![t].pc = "pending"]
  /\ UNCHANGED <<clock, bucket, backup_dir, temp, run, manual_runs, restores,
                 ret, scheduler_running, jobs, arrivals, invocations>>

\* Line 76, "while self.scheduler_running": the test of the flag, by a thread
\* that has just started or whose time.sleep(60) of line 78 ends.
LoopCheck(t) ==
  /\ thread[t].pc \in {"check", "sleep"}
  /\ thread' = [thread EXCEPT ![t].pc =
       IF scheduler_running THEN "pending" ELSE "exited"]
  /\ UNCHANGED <<clock, bucket, backup_dir, temp, run, manual_runs, restores,
                 ret, scheduler_running, jobs, arrivals, invocations>>

\* Line 77, schedule.run_pending(), with no job whose next_run has arrived:
\* the call returns and the thread sleeps.
RunPendingNone(t) ==
  /\ thread[t].pc = "pending"
  /\ ~(jobs # <<>> /\ jobs[1].due # 0)
  /\ thread' = [thread EXCEPT ![t].pc = "sleep"]
  /\ UNCHANGED <<clock, bucket, backup_dir, temp, run, manual_runs, restores,
                 ret, scheduler_running, jobs, arrivals, invocations>>

\* Line 77, with a job whose next_run has arrived: Job.run() calls the job
\* function, create_backup(bucket_name) starts on the loop thread.
RunJob(t) ==
  /\ thread[t].pc = "pending"
  /\ jobs # <<>> /\ jobs[1].due # 0
  /\ StartBackup(t, jobs[1].bucket_name)
  /\ thread' = [thread EXCEPT ![t] =
       [@ EXCEPT !.pc = "job", !.bucket_name = jobs[1].bucket_name,
                 !.arrival = jobs[1].due, !.registered = TRUE]]
  /\ invocations' = invocations \cup {<<t, jobs[1].due>>}
  /\ UNCHANGED <<manual_runs, restores, ret, scheduler_running, jobs,
                 arrivals>>

\* The variant in which a failed run ends the loop thread, as an exception
\* that create_backup let through would.
JobReturnsOrDies(t) ==
  /\ thread[t].pc = "job"
  /\ run[t].pc = "done"
  /\ jobs' = IF thread[t].registered THEN [jobs EXCEPT ![1].due = 0] ELSE jobs
  /\ thread' = [thread EXCEPT ![t] =
       [NoThread EXCEPT !.pc = IF run[t].result = "False"
                               THEN "exited" ELSE "sleep"]]
  /\ run' = [run EXCEPT ![t] = IdleRun]
  /\ UNCHANGED <<clock, bucket, backup_dir, temp, manual_runs, restores,
                 ret, scheduler_running, arrivals, invocations>>

\* create_backup has returned its path or False: Job.run() sets last_run and
\* the next next_run of the job object, run_pending returns, and line 78
\* sleeps.  The activation of create_backup and the thread's reference to
\* the job are gone.
JobReturns(t) ==
  /\ thread[t].pc = "job"
  /\ run[t].pc = "done"
  /\ jobs' = IF thread[t].registered THEN [jobs EXCEPT ![1].due = 0] ELSE jobs
  /\ thread' = [thread EXCEPT ![t] = [NoThread EXCEPT !.pc = "sleep"]]
  /\ run' = [run EXCEPT ![t] = IdleRun]
  /\ UNCHANGED <<clock, bucket, backup_dir, temp, manual_runs, restores,
                 ret, scheduler_running, arrivals, invocations>>

\* Lines 74-78: one step of loop thread t, outside create_backup.
LoopStep(t) ==
  \/ LoopCheck(t)
  \/ RunPendingNone(t)
  \/ RunJob(t)
  \/ JobReturns(t)

(* ------------------------------ organizer ------------------------------ *)

(* src/file_organizer.py.  organize_bucket runs on the main thread from    *)
(* list to return; the calls that fail are an input of the run.            *)

Others == <<"o", "t", "h", "e", "r", "s">>

\* FOLDER_MAPPING (src/config.py lines 24-29), in the order of the dict.
FOLDER_MAPPING ==
  << [category   |-> <<"i", "m", "a", "g", "e", "s">>,
      extensions |-> {<<".", "j", "p", "e", "g">>}],
     [category   |-> <<"d", "o", "c", "u", "m", "e", "n", "t", "s">>,
      extensions |-> {<<".", "p", "d", "f">>, <<".", "d", "o", "c">>,
                      <<".", "t", "x", "t">>}],
     [category   |-> <<"v", "i", "d", "e", "o", "s">>,
      extensions |-> {<<".", "m", "p", "e", "g">>}],
     [category   |-> <<"a", "r", "c", "h", "i", "v", "e", "s">>,
      extensions |-> {<<".", "z", "i", "p">>}] >>

\* str.lower() on the characters keys are made of.
Lower(s) ==
  [i \in 1..Len(s) |->
     CASE s[i] = "T" -> "t" [] s[i] = "X" -> "x" [] OTHER -> s[i]]

\* The last position of character c in s, 0 when there is none.
LastIndex(s, c) ==
  IF \E i \in 1..Len(s) : s[i] = c
  THEN CHOOSE i \in 1..Len(s) :
         s[i] = c /\ \A j \in (i+1)..Len(s) : s[j] # c
  ELSE 0

\* os.path.basename
Basename(key) == SubSeq(key, LastIndex(key, "/") + 1, Len(key))

\* os.path.splitext(key)[1]: from the last dot of the last component, when
\* something other than dots stands before it in that component.
SplitExt(key) ==
  LET sep == LastIndex(key, "/")
      dot == LastIndex(key, ".")
  IN  IF dot > sep /\ \E i \in (sep+1)..(dot-1) : key[i] # "."
      THEN SubSeq(key, dot, Len(key))
      ELSE <<>>

\* Lines 10-16.
get_file_category(file_extension) ==
  LET ext  == Lower(file_extension)
      hits == {i \in DOMAIN FOLDER_MAPPING :
                 ext \in FOLDER_MAPPING[i].extensions}
  IN  IF hits = {} THEN Others
      ELSE FOLDER_MAPPING[CHOOSE i \in hits : \A j \in hits : i <= j].category

\* file_key.startswith(prefix)
StartsWith(key, prefix) ==
  Len(key) >= Len(prefix) /\ SubSeq(key, 1, Len(prefix)) = prefix

\* Line 29: f"{category}/{os.path.basename(file_key)}"
NewKey(key) ==
  get_file_category(SplitExt(key)) \o <<"/">> \o Basename(key)

FaultKinds == {"none", "copy", "delete"}

\* A variant that copies and reports success but leaves the original.
organize_file_keeps_original(objs, file_key, fault) ==
  IF StartsWith(file_key, get_file_category(SplitExt(file_key)) \o <<"/">>)
  THEN [ok |-> TRUE, objs |-> objs]
  ELSE IF fault = "copy" \/ file_key \notin DOMAIN objs
  THEN [ok |-> FALSE, objs |-> objs]
  ELSE [ok |-> fault # "delete",
        objs |-> Put(objs, NewKey(file_key), objs[file_key])]

\* Lines 18-40 on the objects objs of the bucket; fault names the store call
\* that raises.  copy_object raises as well when the source key is gone.
organize_file(objs, file_key, fault) ==
  IF StartsWith(file_key, get_file_category(SplitExt(file_key)) \o <<"/">>)
  THEN [ok |-> TRUE, objs |-> objs]
  ELSE IF fault = "copy" \/ file_key \notin DOMAIN objs
  THEN [ok |-> FALSE, objs |-> objs]
  ELSE IF fault = "delete"
  THEN [ok |-> FALSE, objs |-> Put(objs, NewKey(file_key), objs[file_key])]
  ELSE [ok |-> TRUE,
        objs |-> Remove(Put(objs, NewKey(file_key), objs[file_key]), file_key)]

\* Line 52: '/' not in file_key
IsRoot(key) == \A i \in 1..Len(key) : key[i] # "/"

RECURSIVE OrganizeLoopStops(_, _, _)
\* A variant of the loop that gives up at the first object that fails.
OrganizeLoopStops(listed, faults, acc) ==
  IF listed = <<>> THEN acc
  ELSE LET k == listed[1] IN
       IF ~IsRoot(k) THEN OrganizeLoopStops(Tail(listed), faults, acc)
       ELSE LET r == organize_file(acc.objs, k, faults[k])
                a == [objs      |-> r.objs,
                      count     |-> acc.count + (IF r.ok THEN 1 ELSE 0),
                      attempted |-> Append(acc.attempted, k)]
            IN  IF r.ok THEN OrganizeLoopStops(Tail(listed), faults, a) ELSE a

RECURSIVE OrganizeLoop(_, _, _)
\* Lines 48-54: the loop over the listed objects.
OrganizeLoop(listed, faults, acc) ==
  IF listed = <<>> THEN acc
  ELSE LET k == listed[1] IN
       IF ~IsRoot(k) THEN OrganizeLoop(Tail(listed), faults, acc)
       ELSE LET r == organize_file(acc.objs, k, faults[k])
            IN  OrganizeLoop(Tail(listed), faults,
                  [objs      |-> r.objs,
                   count     |-> acc.count + (IF r.ok THEN 1 ELSE 0),
                   attempted |-> Append(acc.attempted, k)])

RootKeys(objs) == {k \in DOMAIN objs : IsRoot(k)}

\* Whether the call the main thread completed last was an organize run of
\* bucket b in which every store call succeeded.
CleanOrganize(b) ==
  /\ ret.op = "organize_bucket"
  /\ ret.bucket_name = b
  /\ ret.ok
  /\ \A k \in DOMAIN ret.faults : ret.faults[k] = "none"

\* Lines 42-60, the user choosing "organize" (src/main.py line 470).
organize_bucket(b) ==
  /\ MainIdle
  /\ \E faults \in [RootKeys(bucket[b]) -> FaultKinds] :
       LET r == OrganizeLoop(SortKeys(DOMAIN bucket[b]), faults,
                  [objs |-> bucket[b], count |-> 0, attempted |-> <<>>])
       IN  /\ bucket' = [bucket EXCEPT ![b] = r.objs]
           /\ ret' = [NoRet EXCEPT !.op = "organize_bucket", !.ok = TRUE,
                                   !.bucket_name = b, !.before = bucket[b],
                                   !.count = r.count,
                                   !.attempted = r.attempted,
                                   !.faults = faults,
                                   !.after_clean = CleanOrganize(b),
                                   !.prev_count =
                                     IF CleanOrganize(b) THEN ret.count ELSE 0]
  /\ UNCHANGED <<clock, backup_dir, temp, run, manual_runs, restores,
                 schedVars>>

\* Line 45 raises: the handler of lines 58-60 returns 0.
organize_bucket_list_fails(b) ==
  /\ MainIdle
  /\ ret' = ExceptException(Raise(
              [NoRet EXCEPT !.op = "organize_bucket", !.bucket_name = b,
                            !.before = bucket[b]]))
  /\ UNCHANGED <<clock, bucket, backup_dir, temp, run, manual_runs, restores,
                 schedVars>>

(* ----------------------------- create_zip ------------------------------ *)

(* src/archive_manager.py.  The local files create_zip is given are an     *)
(* input of the call: which of the paths exist, and with what content.     *)

\* Local paths:  "a", "u/a" and "v/a".
LocalPaths == { <<"a">>, <<"u", "/", "a">>, <<"v", "/", "a">> }

\* Archive names:  "z" and "z.zip".
ArchiveNames == { <<"z">>, <<"z", ".", "z", "i", "p">> }

DotZip == <<".", "z", "i", "p">>

\* archive_name.endswith('.zip')
EndsWithZip(name) ==
  Len(name) >= Len(DotZip)
  /\ SubSeq(name, Len(name) - Len(DotZip) + 1, Len(name)) = DotZip

\* Lines 18-21: the name of the archive in the temp directory.
ArchivePath(archive_name) ==
  IF EndsWithZip(archive_name) THEN archive_name ELSE archive_name \o DotZip

RECURSIVE ZipEntries(_, _)
\* Lines 24-26: every path that exists is added under its base name.
ZipEntries(files, disk) ==
  IF files = <<>> THEN <<>>
  ELSE (IF files[1] \in DOMAIN disk
        THEN << <<ArcName(Basename(files[1])), disk[files[1]]>> >>
        ELSE <<>>)
       \o ZipEntries(Tail(files), disk)

\* What the temp directory holds under the name of an archive.
ZipMark == "zip"

\* Lines 15-33, for the local files disk.
create_zip(files, archive_name, disk) ==
  /\ MainIdle
  /\ temp' = Put(temp, ArchivePath(archive_name), ZipMark)
  /\ ret' = [NoRet EXCEPT !.op = "create_zip", !.ok = TRUE,
                          !.path = ArchivePath(archive_name),
                          !.files = files,
                          !.entries = ZipEntries(files, disk)]
  /\ UNCHANGED <<clock, bucket, backup_dir, run, manual_runs, restores,
                 schedVars>>

\* Line 23 raises (the temp directory cannot be written): the handler of
\* lines 31-33 returns None.
create_zip_fails(files, archive_name) ==
  /\ MainIdle
  /\ ret' = ExceptException(Raise(
              [NoRet EXCEPT !.op = "create_zip", !.files = files]))
  /\ UNCHANGED <<clock, bucket, backup_dir, temp, run, manual_runs, restores,
                 schedVars>>

(* ----------------------------- environment ----------------------------- *)

\* An archive file is truncated or damaged on disk by something else.  What
\* the main thread was last told no longer describes the directory.
TruncateArchive(p) ==
  /\ p \in DOMAIN backup_dir
  /\ backup_dir[p].origin \in {"completed", "failed"}
  /\ backup_dir' = [backup_dir EXCEPT ![p] =
       [@ EXCEPT !.readable = FALSE, !.entries = <<>>, !.mtime = clock,
                 !.origin = "damaged"]]
  /\ ret' = NoRet
  /\ UNCHANGED <<clock, bucket, temp, run, manual_runs, restores, schedVars>>

\* Time passes.
Tick ==
  /\ clock < MaxClock
  /\ clock' = clock + 1
  /\ UNCHANGED <<bucket, backup_dir, temp, run, manual_runs, restores, ret, schedVars>>

\* No scheduler has been started (line 17, and an empty job list).
SchedInit ==
  /\ scheduler_running = FALSE
  /\ jobs = <<>>
  /\ thread = [t \in Threads |-> NoThread]
  /\ arrivals = 0
  /\ invocations = {}

\* The state after BackupManager.__init__ (lines 12-17): empty backup and
\* temp directories, bucket b1 holding any objects with contents of C and
\* bucket b2 empty.
InitWith(C) ==
  /\ clock = 0
  /\ \E S \in SUBSET KeyUniverse : \E f \in [S -> C] :
       bucket = [b \in BucketNames |-> IF b = "b1" THEN f ELSE EmptyMap]
  /\ backup_dir = EmptyMap
  /\ temp = EmptyMap
  /\ run = [r \in Runners |-> IdleRun]
  /\ manual_runs = 0
  /\ restores = 0
  /\ ret = NoRet
  /\ SchedInit

Paths == BucketNames \X (0..MaxClock)

(* An interactive session of backups and queries on the main thread, with  *)
(* store and disk faults.                                                  *)
Init == InitWith({"x"})

Next ==
  \/ Tick
  \/ \E b \in BucketNames : ManualBackup(b)
  \/ BackupStep(Main)
  \/ BackupFault(Main)
  \/ \E p \in Paths : GetBackupInfo(p)
  \/ ListBackups
  \/ \E p \in Paths : TruncateArchive(p)

Spec == Init /\ [][Next]_vars

(* Backups followed by restores, without faults in the backups.            *)
RestoreInit == InitWith(Contents)

RestoreNext ==
  \/ Tick
  \/ \E b \in BucketNames : ManualBackup(b)
  \/ BackupStep(Main)
  \/ \E p \in Paths, b \in BucketNames : restore_backup(p, b)
  \/ \E p \in Paths, b \in BucketNames : restore_interrupted(p, b)

RestoreSpec == RestoreInit /\ [][RestoreNext]_vars

\* One object in bucket b1, bucket b2 empty, no scheduler started.
SchedInit1 ==
  /\ clock = 0
  /\ bucket = [b \in BucketNames |->
                 IF b = "b1" THEN Put(EmptyMap, <<"a">>, "x") ELSE EmptyMap]
  /\ backup_dir = EmptyMap
  /\ temp = EmptyMap
  /\ run = [r \in Runners |-> IdleRun]
  /\ manual_runs = 0
  /\ restores = 0
  /\ ret = NoRet
  /\ SchedInit

(* The scheduler switched on, over and off from the menu (src/main.py      *)
(* lines 354-367) for bucket b1, its runs without faults.                  *)
SchedNext ==
  \/ \E interval \in {"daily", "weekly"} : schedule_backup("b1", interval)
  \/ stop_scheduler
  \/ TriggerTime
  \/ \E t \in Threads : LoopStep(t)
  \/ \E t \in Threads : BackupStep(t)

SchedSpec == SchedInit1 /\ [][SchedNext]_vars

(* The same for the empty bucket b2, where every scheduled run ends with   *)
(* its listing.  A loop thread that can take a step eventually takes one:  *)
(* the sleep ends, the store answers.                                      *)
StopNext ==
  \/ \E interval \in {"daily", "weekly"} : schedule_backup("b2", interval)
  \/ stop_scheduler
  \/ TriggerTime
  \/ \E t \in Threads : LoopStep(t)
  \/ \E t \in Threads : ListObjects(t)

StopSpec ==
  /\ SchedInit1
  /\ [][StopNext]_vars
  /\ \A t \in Threads : WF_vars(LoopStep(t) \/ ListObjects(t))

(* A schedule that is set and never stopped, its runs subject to faults    *)
(* and to an empty bucket.                                                 *)
SurviveNext ==
  \/ \E b \in BucketNames : schedule_backup(b, "daily")
  \/ TriggerTime
  \/ \E t \in Threads : LoopStep(t)
  \/ \E t \in Threads : BackupStep(t)
  \/ \E t \in Threads : BackupFault(t)

SurviveSpec ==
  /\ SchedInit1
  /\ [][SurviveNext]_vars
  /\ \A t \in Threads : WF_vars(LoopStep(t) \/ BackupStep(t) \/ BackupFault(t))

(* schedule_backup as a method of BackupManager, called with any interval  *)
(* string (src/backup_manager.py lines 52-72) for the empty bucket b2,     *)
(* with and without a thread to start.                                     *)
IntervalNext ==
  \/ \E interval \in Intervals : schedule_backup("b2", interval)
  \/ \E interval \in Intervals : ScheduleBackupFails("b2", interval)
  \/ stop_scheduler
  \/ TriggerTime
  \/ \E t \in Threads : LoopStep(t)
  \/ \E t \in Threads : ListObjects(t)

IntervalSpec == SchedInit1 /\ [][IntervalNext]_vars

(* A manual backup while the schedule is active; no faults.                *)
ConcurrentNext ==
  \/ Tick
  \/ ManualBackup("b1")
  \/ BackupStep(Main)
  \/ schedule_backup("b1", "daily")
  \/ TriggerTime
  \/ \E t \in Threads : LoopStep(t)
  \/ \E t \in Threads : BackupStep(t)

ConcurrentSpec == SchedInit1 /\ [][ConcurrentNext]_vars

\* The lists of at most MaxFiles of the local paths.
FileLists == UNION {[1..n -> LocalPaths] : n \in 0..MaxFiles}

(* Calls of create_zip.                                                    *)
ZipNext ==
  \/ \E files \in FileLists, archive_name \in ArchiveNames :
       \E present \in SUBSET LocalPaths : \E disk \in [present -> Contents] :
         create_zip(files, archive_name, disk)
  \/ \E files \in FileLists, archive_name \in ArchiveNames :
       create_zip_fails(files, archive_name)

ZipSpec == SchedInit1 /\ [][ZipNext]_vars

\* One object "a" in each bucket, no scheduler started.
FaultInit ==
  /\ clock = 0
  /\ bucket = [b \in BucketNames |-> Put(EmptyMap, <<"a">>, "x")]
  /\ backup_dir = EmptyMap
  /\ temp = EmptyMap
  /\ run = [r \in Runners |-> IdleRun]
  /\ manual_runs = 0
  /\ restores = 0
  /\ ret = NoRet
  /\ SchedInit

(* Every call of the backup menu, for bucket b1, and of the organizer, for *)
(* bucket b2, on the main thread, with the failures of the store and of    *)
(* the local files.                                                        *)
FaultNext ==
  \/ ManualBackup("b1")
  \/ BackupStep(Main)
  \/ BackupFault(Main)
  \/ \E p \in Paths : restore_backup(p, "b1")
  \/ \E p \in Paths : GetBackupInfo(p)
  \/ \E p \in Paths : GetBackupInfoFails(p)
  \/ ListBackups
  \/ ListBackupsFails
  \/ schedule_backup("b1", "daily")
  \/ ScheduleBackupFails("b1", "daily")
  \/ stop_scheduler
  \/ organize_bucket("b2")
  \/ organize_bucket_list_fails("b2")

FaultSpec == FaultInit /\ [][FaultNext]_vars

\* Object keys with a parent-directory component:  "../a", next to "a".
TraversalKeys == { <<".", ".", "/", "a">>, <<"a">> }

\* Bucket b1 holds "../a" and possibly "a", bucket b2 is empty.
TraversalInit ==
  /\ clock = 0
  /\ \E S \in SUBSET TraversalKeys : \E f \in [S -> Contents] :
       /\ <<".", ".", "/", "a">> \in S
       /\ bucket = [b \in BucketNames |-> IF b = "b1" THEN f ELSE EmptyMap]
  /\ backup_dir = EmptyMap
  /\ temp = EmptyMap
  /\ run = [r \in Runners |-> IdleRun]
  /\ manual_runs = 0
  /\ restores = 0
  /\ ret = NoRet
  /\ SchedInit

(* Backups of such a bucket, and restores of its archives.                 *)
TraversalNext ==
  \/ Tick
  \/ ManualBackup("b1")
  \/ BackupStep(Main)
  \/ \E p \in Paths, b \in BucketNames : restore_backup(p, b)

TraversalSpec == TraversalInit /\ [][TraversalNext]_vars

\* Object keys of the bucket that is organized:  "a", "a.txt", "a.TXT",
\* "others/a" and "documents/a.txt".
OrganizeKeys ==
  { <<"a">>, <<"a", ".", "t", "x", "t">>, <<"a", ".", "T", "X", "T">>,
    Others \o <<"/", "a">>,
    <<"d", "o", "c", "u", "m", "e", "n", "t", "s", "/", "a", ".", "t", "x", "t">> }

\* Bucket b1 holds any of these objects, bucket b2 is empty.
OrganizeInit ==
  /\ clock = 0
  /\ \E S \in SUBSET OrganizeKeys : \E f \in [S -> Contents] :
       bucket = [b \in BucketNames |-> IF b = "b1" THEN f ELSE EmptyMap]
  /\ backup_dir = EmptyMap
  /\ temp = EmptyMap
  /\ run = [r \in Runners |-> IdleRun]
  /\ manual_runs = 0
  /\ restores = 0
  /\ ret = NoRet
  /\ SchedInit

(* Organize runs of bucket b1, with store faults.                          *)
OrganizeNext ==
  \/ organize_bucket("b1")
  \/ organize_bucket_list_fails("b1")

OrganizeSpec == OrganizeInit /\ [][OrganizeNext]_vars

(* ------------------------------- claims -------------------------------- *)

\* C1: all-or-nothing backup.  When the fetch of object K of the N listed
\* objects fails, create_backup fetches none of the remaining objects and
\* returns False, never the path of the archive.
C1_AllOrNothing ==
  \A r \in Runners :
    run[r].failed_fetch # 0 =>
      /\ run[r].pc = "done"
      /\ run[r].result = "False"
      /\ run[r].fetched = run[r].failed_fetch

\* C1 happens: the first of several objects could not be fetched and the call
\* has returned.
C1_Witness ==
  /\ run[Main].failed_fetch = 1
  /\ Len(run[Main].objects) >= 2
  /\ run[Main].pc = "done"

\* C2 (as claimed): no entry that list_backups returns is the archive a failed
\* create_backup run left behind.
C2_OnlyCompletedListed ==
  ret.op = "list_backups" =>
    \A i \in DOMAIN ret.info :
      backup_dir[ret.info[i].path].origin # "failed"

\* C3 (as claimed): a successful restore_backup, into a bucket that was empty,
\* of the archive a successful create_backup wrote leaves that bucket with
\* exactly the keys and contents the backed-up bucket had.
C3_RoundTrip ==
  ( /\ ret.op = "restore_backup"
    /\ ret.ok
    /\ ret.before = EmptyMap
    /\ ret.path \in DOMAIN backup_dir
    /\ backup_dir[ret.path].origin = "completed" )
  => bucket[ret.bucket_name] = backup_dir[ret.path].source

\* C4: get_backup_info reports file_count = N for the archive that a
\* successful create_backup over N fetched objects returned, and returns a
\* descriptor with file_count = 0 for an existing file that is no readable zip.
C4_CountInvariant ==
  ret.op = "get_backup_info" =>
    /\ ( /\ run[Main].result = "path"
         /\ ret.path = run[Main].path
         /\ backup_dir[ret.path].origin = "completed" )
       => /\ ret.info # <<>>
          /\ ret.info[1].file_count = run[Main].fetched
          /\ run[Main].fetched = Len(run[Main].objects)
    /\ (ret.path \in DOMAIN backup_dir /\ ~backup_dir[ret.path].readable)
       => /\ ret.info # <<>>
          /\ ret.info[1].file_count = 0

\* C4 happens: the summary of a completed archive of two objects, one of them
\* below a folder, was asked for.
C4_Witness ==
  /\ ret.op = "get_backup_info"
  /\ run[Main].result = "path"
  /\ ret.path = run[Main].path
  /\ backup_dir[ret.path].origin = "completed"
  /\ ret.info[1].file_count = 2
  /\ \E i \in DOMAIN backup_dir[ret.path].entries :
       Len(Split(backup_dir[ret.path].entries[i][1])) = 2

Invoked(a) == {t \in Threads : <<t, a>> \in invocations}

\* C5 (as claimed): after schedule_backup(bucket, 'weekly') has replaced an
\* earlier schedule exactly one job is registered, the weekly one, and no
\* arrival of a trigger time starts create_backup more than once.
C5_ScheduleReplacement ==
  /\ (ret.op = "schedule_backup" /\ ret.interval = "weekly")
       => (Len(jobs) = 1 /\ jobs[1].interval = "weekly")
  /\ \A a \in 1..MaxTriggers : Cardinality(Invoked(a)) <= 1

\* C6 (as claimed): at most one scheduler loop thread is alive.
C6_AtMostOneLoop == Cardinality({t \in Threads : Alive(t)}) <= 1

NoLoopAlive == \A t \in Threads : ~Alive(t)

\* C7: stop_scheduler is cooperative and idempotent.  Once the flag is
\* cleared and schedule_backup does not set it again, every loop thread
\* exits, each at its next test of the flag; when no loop is left no
\* scheduled create_backup starts; and stop_scheduler called when the
\* scheduler is already stopped returns success and changes nothing.
C7_StopCooperative ==
  /\ (~scheduler_running) ~> (scheduler_running \/ NoLoopAlive)
  /\ [][\A t \in Threads :
          (LoopCheck(t) /\ ~scheduler_running) => thread'[t].pc = "exited"]_vars
  /\ [][(NoLoopAlive /\ ~scheduler_running) => invocations' = invocations]_vars
  /\ [][(stop_scheduler /\ ~scheduler_running /\ jobs = <<>>)
          => /\ ret'.ok
             /\ UNCHANGED <<clock, bucket, backup_dir, temp, run, manual_runs,
                            restores, schedVars>>]_vars

\* C7 happens: the scheduler was stopped after a scheduled run, and its loop
\* thread has exited.
C7_Witness ==
  /\ ret.op = "stop_scheduler"
  /\ ~scheduler_running
  /\ invocations # {}
  /\ \E t \in Threads : thread[t].pc = "exited"
  /\ NoLoopAlive

\* C8: the schedule survives a failed run.  When a scheduled create_backup
\* returns False the job it ran stays registered and the loop thread goes on
\* to its sleep; and a registered job whose trigger time has arrived does
\* not stay due without create_backup being started for that arrival.
C8_ScheduleSurvivesFailure ==
  /\ [][\A t \in Threads :
          (JobReturns(t) /\ run[t].result = "False")
            => /\ thread'[t].pc = "sleep"
               /\ Len(jobs') = Len(jobs)
               /\ thread[t].registered =>
                    /\ jobs'[1].bucket_name = thread[t].bucket_name
                    /\ jobs'[1].interval = jobs[1].interval]_vars
  /\ \A a \in 1..MaxTriggers :
       (jobs # <<>> /\ jobs[1].due = a)
         ~> (Invoked(a) # {} \/ jobs = <<>> \/ jobs[1].due # a)

\* C8 happens: a loop thread whose run for the first arrival of the trigger
\* time failed, leaving its archive behind, has started create_backup again
\* for the second arrival.
C8_Witness ==
  \E t \in Threads :
    /\ thread[t].pc = "job"
    /\ thread[t].arrival = 2
    /\ run[t].pc = "list"
    /\ invocations = {<<t, 1>>, <<t, 2>>}
    /\ run[t].path \in DOMAIN backup_dir
    /\ backup_dir[run[t].path].origin = "failed"

Active(r) == run[r].pc \notin {"idle", "done"}
Staged(r) == run[r].pc \in {"zipwrite", "unlink"}

\* C9 (as claimed): a manual and a scheduled create_backup that run at the
\* same time write to different archive files and share no staging file,
\* and neither fails or stores an archive that differs from the bucket.
C9_NoInterference ==
  /\ \A t \in Threads :
       /\ (Active(Main) /\ Active(t)) => run[Main].path # run[t].path
       /\ (Staged(Main) /\ Staged(t))
            => StagingName(CurrentKey(Main)) # StagingName(CurrentKey(t))
  /\ \A r \in Runners :
       run[r].pc = "done" =>
         /\ run[r].result = "path"
         /\ backup_dir[run[r].path].readable
         /\ Len(backup_dir[run[r].path].entries) = Len(run[r].objects)

MostRecentFirst(list) ==
  \A i, j \in DOMAIN list : i < j => list[i].created_at >= list[j].created_at

\* C10 (as claimed): list_backups returns the descriptors most recent first,
\* and a file that cannot be read as a zip is not among them.
C10_UnreadableExcluded ==
  ret.op = "list_backups" =>
    /\ MostRecentFirst(ret.info)
    /\ \A i \in DOMAIN ret.info : backup_dir[ret.info[i].path].readable

\* C10 (amended): list_backups returns one descriptor for every file of the
\* backup directory, most recent first by modification time; a file that
\* cannot be read as a zip is listed too, with file_count 0.
C10_ListedMostRecentFirst ==
  ret.op = "list_backups" =>
    /\ MostRecentFirst(ret.info)
    /\ {ret.info[i].path : i \in DOMAIN ret.info} = DOMAIN backup_dir
    /\ Len(ret.info) = Cardinality(DOMAIN backup_dir)
    /\ \A i \in DOMAIN ret.info :
         /\ ret.info[i].created_at = backup_dir[ret.info[i].path].mtime
         /\ ~backup_dir[ret.info[i].path].readable
              => ret.info[i].file_count = 0

\* C10 happens: two archives of different modification times are listed, one
\* of them unreadable.
C10_Witness ==
  /\ ret.op = "list_backups"
  /\ Len(ret.info) = 2
  /\ ret.info[1].created_at > ret.info[2].created_at
  /\ \E i \in DOMAIN ret.info : ~backup_dir[ret.info[i].path].readable

\* C11: idempotent organize.  An organize run that immediately follows a run
\* of the same bucket in which every copy and delete succeeded moves 0 files
\* and leaves the bucket as it was.
C11_IdempotentOrganize ==
  (ret.op = "organize_bucket" /\ ret.after_clean) =>
    /\ ret.count = 0
    /\ bucket[ret.bucket_name] = ret.before

\* C11 happens: the run before moved two files, and this run has returned.
C11_Witness ==
  /\ ret.op = "organize_bucket"
  /\ ret.after_clean
  /\ ret.ok
  /\ ret.prev_count = 2

\* C12: organize failure isolation.  organize_file is called for every
\* root-level object of the listing whatever failed before, and the count
\* returned is the number of objects whose copy and delete both succeeded.
C12_FailureIsolation ==
  (ret.op = "organize_bucket" /\ ret.ok) =>
    /\ ret.attempted = SortKeys(RootKeys(ret.before))
    /\ ret.count = Cardinality({k \in RootKeys(ret.before) :
                                   ret.faults[k] = "none"})

\* C12 happens: the first of three root-level objects failed and the other
\* two were moved.
C12_Witness ==
  /\ ret.op = "organize_bucket"
  /\ ret.ok
  /\ Len(ret.attempted) = 3
  /\ ret.faults[ret.attempted[1]] # "none"
  /\ ret.count = 2

\* The key an object of key k is stored under after it was organized.
Organized(k) == IF IsRoot(k) THEN NewKey(k) ELSE k

\* C20 (as claimed): organize loses no data.  The content of every object the
\* bucket held before organize_bucket is afterwards stored under the
\* object's key or under its category-prefixed key, and an original is gone
\* only when its copy was made.
C20_NoDataLost ==
  ret.op = "organize_bucket" =>
    LET after == bucket[ret.bucket_name] IN
    \A k \in DOMAIN ret.before :
      \/ k \in DOMAIN after /\ after[k] = ret.before[k]
      \/ /\ Organized(k) \in DOMAIN after
         /\ after[Organized(k)] = ret.before[k]
         /\ ret.faults[k] = "none"

\* The entries of the archive the last restore_backup call was given.
RestoredEntries == backup_dir[ret.path].entries

HasEscape(name) == \E i \in DOMAIN Split(name) : Split(name)[i] = DotDot

\* C13 (as claimed): traversal safety.  An archive entry whose name has a
\* parent-directory component is rejected by restore_backup: no file is
\* extracted for it, inside or outside the extraction directory, and nothing
\* is uploaded for it.
C13_TraversalRejected ==
  (ret.op = "restore_backup" /\ ret.started) =>
    LET plain == {ExtractName(RestoredEntries[i][1]) :
                    i \in {j \in DOMAIN RestoredEntries :
                             ~HasEscape(RestoredEntries[j][1])}}
    IN  /\ \A rel \in DOMAIN ret.tree : ~HasEscape(rel)
        /\ \A i \in DOMAIN RestoredEntries :
             LET name == RestoredEntries[i][1] IN
             (HasEscape(name) /\ ExtractName(name) \notin plain)
               => /\ ExtractName(name) \notin DOMAIN ret.tree
                  /\ \A u \in DOMAIN ret.uploaded :
                       ret.uploaded[u] # ExtractName(name)

\* C17 (as claimed): the extraction directory holds no file of an earlier
\* run when restore_backup starts to extract, and it is gone when
\* restore_backup returns (as long as its removal itself does not fail).
C17_ExtractDirLifecycle ==
  (ret.op = "restore_backup" /\ ret.started) =>
    /\ ret.stale = EmptyMap
    /\ ~ret.rm_failed =>
         /\ RestoreTemp \notin DOMAIN temp
         /\ ExtractDirTree = EmptyMap

\* The keys restore_backup uploaded to.
UploadedKeys == {S3Key(ret.uploaded[i]) : i \in DOMAIN ret.uploaded}

\* The content of the last archive entry of a name.
LastEntry(name) ==
  LET is == {i \in DOMAIN RestoredEntries : RestoredEntries[i][1] = name}
  IN  RestoredEntries[CHOOSE i \in is : \A j \in is : j <= i][2]

\* C18 (as claimed): restore partial failure.  When an upload fails the call
\* returns failure with no further upload, the objects uploaded before keep
\* the archive's content, and every key that is no entry of the archive is
\* as it was; a call that succeeds leaves every entry's key with the
\* archive's content.
C18_RestoreFrame ==
  (ret.op = "restore_backup" /\ ret.started) =>
    LET after == bucket[ret.bucket_name]
        names == {RestoredEntries[i][1] : i \in DOMAIN RestoredEntries}
    IN  /\ Len(ret.uploaded) < Cardinality(DOMAIN ret.tree) => ~ret.ok
        /\ \A i \in DOMAIN ret.uploaded :
             /\ S3Key(ret.uploaded[i]) \in DOMAIN after
             /\ after[S3Key(ret.uploaded[i])] = ret.tree[ret.uploaded[i]]
        /\ \A k \in (DOMAIN after) \cup (DOMAIN ret.before) :
             (k \notin names \/ k \notin UploadedKeys) =>
               /\ k \in DOMAIN after
               /\ k \in DOMAIN ret.before
               /\ after[k] = ret.before[k]
        /\ ret.ok =>
             \A k \in names : k \in DOMAIN after /\ after[k] = LastEntry(k)

\* C14: failure as a result, not a fault.  Whatever store call or local file
\* operation fails, no exception leaves create_backup, restore_backup,
\* list_backups, get_backup_info, schedule_backup, stop_scheduler or
\* organize_bucket: the call returns, with its failure value (False, None,
\* the empty list, 0) when it failed.
C14_FailureIsAResult ==
  /\ ~ret.raised
  /\ \A r \in Runners : run[r].result \in {"none", "False", "path"}
  /\ \A r \in Runners : run[r].fault => run[r].result = "False"
  /\ (ret.op \in {"list_backups", "get_backup_info"} /\ ~ret.ok)
       => ret.info = <<>>
  /\ (ret.op = "organize_bucket" /\ ~ret.ok) => ret.count = 0

\* C14 happens: in a restore whose uploads were all made shutil.rmtree
\* raised, in the body and again in the inner handler, and the call has
\* returned False.
C14_Witness ==
  /\ ret.op = "restore_backup"
  /\ ret.started
  /\ ret.rm_failed
  /\ ret.uploaded # <<>>
  /\ Len(ret.uploaded) = Cardinality(DOMAIN ret.tree)
  /\ ~ret.ok

\* C15: empty bucket.  A create_backup whose listing is empty returns False
\* without creating or changing any file of the backup or temp directory (so
\* list_backups returns what it returned before), and the activation ends
\* there: the runner is free for its next create_backup.
C15_EmptyBucket ==
  [][\A r \in Runners :
       (ListObjects(r) /\ DOMAIN bucket[run[r].bucket_name] = {})
         => /\ run'[r].pc = "done"
            /\ run'[r].result = "False"
            /\ backup_dir' = backup_dir
            /\ temp' = temp
            /\ bucket' = bucket]_vars

\* C15 happens: after a create_backup that ended on an empty listing, the
\* next create_backup, of a bucket that holds objects, has returned the path
\* of its archive.
C15_Witness ==
  /\ run[Main].after_empty
  /\ run[Main].result = "path"
  /\ run[Main].path \in DOMAIN backup_dir
  /\ backup_dir[run[Main].path].origin = "completed"
  /\ Len(backup_dir[run[Main].path].entries) >= 1

\* C16 (as claimed): staging cleanup.  When create_backup has returned, no
\* staging file of an object of that run is in the temp directory.
C16_StagingCleanup ==
  \A r \in Runners :
    run[r].pc = "done" =>
      \A i \in DOMAIN run[r].objects :
        StagingName(run[r].objects[i]) \notin DOMAIN temp

\* C19 (as claimed): entry names are unique in every archive the program
\* writes: in the archive create_zip wrote from pairwise different paths,
\* and in the archive of every completed create_backup.
C19_UniqueEntryNames ==
  /\ ( /\ ret.op = "create_zip"
       /\ ret.ok
       /\ \A i, j \in DOMAIN ret.files : i # j => ret.files[i] # ret.files[j] )
     => \A i, j \in DOMAIN ret.entries :
          i # j => ret.entries[i][1] # ret.entries[j][1]
  /\ \A p \in DOMAIN backup_dir :
       backup_dir[p].origin = "completed" =>
         \A i, j \in DOMAIN backup_dir[p].entries :
           i # j => backup_dir[p].entries[i][1] # backup_dir[p].entries[j][1]

\* C21 (as claimed): schedule_backup returns True only if, on return,
\* exactly one job is registered and it is for the given bucket; called
\* with an interval other than 'daily' and 'weekly' it does not return True
\* and leaves the registered jobs as they were.
C21_IntervalValidated ==
  [][\A b \in BucketNames, interval \in Intervals :
       schedule_backup(b, interval)
         => /\ ret'.ok => (Len(jobs') = 1 /\ jobs'[1].bucket_name = b)
            /\ interval \notin {"daily", "weekly"}
                 => (~ret'.ok /\ jobs' = jobs)]_vars

====
